---- MODULE Spec2Model ----
(***************************************************************************)
(* A model of src/src/functions.cpp of the stranger package: the stage     *)
(* transition kernel (transition, rmultinom_trans, rbinom_trans), the      *)
(* reproduction aggregator (reproduce), the dispersal kernel (disperse,    *)
(* rmultinom_disp, rbinom_disp) and the time-stepping loop (sim).          *)
(*                                                                         *)
(* A double is modelled as an exact rational <<num, den>> in lowest terms  *)
(* with den > 0; the non-finite results of a division by zero are          *)
(* <<0, 0>> (NaN), <<1, 0>> (+Inf) and <<-1, 0>> (-Inf).  Rounding is not  *)
(* modelled.  Matrices are functions over the 0-based index pairs of the   *)
(* source, cubes are functions from the 0-based slice index to matrices.   *)
(***************************************************************************)
EXTENDS Integers, Sequences, FiniteSets, TLC

VARIABLES
    nrow, ncol, nclass, nenv,   \* N.n_rows, N.n_cols, N.n_slices, E.n_slices
    N, E, alpha, beta, gamma,   \* arguments of transition (sim's N is the same array)
    rand, tseed,                \* transition's rand and seed arguments
    NN, p, s, gen, tpc,         \* transition's locals and its position
    popn, y, m, u, i, mgen,     \* rmultinom_trans's frame
    bp, draws,                  \* rbinom_trans's p argument; generator state of every draw
    S, nb, reflect, dseed,      \* arguments of disperse (nb is its neighbor matrix N)
    nk, Ni, T, a, b, fi, dgen, dpc, \* nb.n_rows; disperse's locals and its position
    dret,                       \* the matrix disperse returned
    dprobs, du, di, dy,         \* rmultinom_disp's frame
    env, fecundity, seed, record, nsteps,  \* arguments of sim
    d, si, spc,                 \* sim's locals and its position
    hist, seedsUsed             \* history: what every step computed, seeds handed to the kernels

trVars == <<N, E, alpha, beta, gamma, rand, tseed, NN, p, s, gen, tpc,
            popn, y, m, u, i, mgen, bp>>
dispVars == <<S, nb, nk, Ni, reflect, dseed, T, a, b, fi, dgen, dpc, dret, dprobs, du, di, dy>>
simVars == <<env, fecundity, seed, record, nsteps, d, si, spc, hist, seedsUsed>>
vars == <<nrow, ncol, nclass, nenv, trVars, dispVars, simVars, draws>>

-----------------------------------------------------------------------------
(* Bounds of the model. *)

\* largest population count of an input cell
MaxPop == 2
\* largest number of grid rows and of grid columns
MaxSide == 2
\* largest kernel radius (the kernel has 2r+1 rows and columns)
MaxR == 2
\* largest seed count of an input cell of disperse
MaxSeed == 1
\* largest number of steps of a sim run
MaxSteps == 2

-----------------------------------------------------------------------------
(* Double arithmetic. *)

Abs(x) == IF x < 0 THEN -x ELSE x

Sgn(x) == IF x < 0 THEN -1 ELSE IF x > 0 THEN 1 ELSE 0

RECURSIVE GCD(_, _)
GCD(x, z) == IF z = 0 THEN x ELSE GCD(z, x % z)

\* the double n/dn, dn > 0, in lowest terms
Rat(n, dn) == LET g == GCD(Abs(n), dn) IN <<n \div g, dn \div g>>

R(k) == <<k, 1>>
Zero == <<0, 1>>
One == <<1, 1>>
Half == <<1, 2>>
NaN == <<0, 0>>

IsFinite(q) == q[2] > 0

RAdd(q, r) == Rat(q[1] * r[2] + r[1] * q[2], q[2] * r[2])
RSub(q, r) == Rat(q[1] * r[2] - r[1] * q[2], q[2] * r[2])
RMul(q, r) == Rat(q[1] * r[1], q[2] * r[2])
\* IEEE division: x/0 is NaN for x = 0 and a signed infinity otherwise
RDiv(q, r) == IF r[1] = 0 THEN <<Sgn(q[1]), 0>>
              ELSE Rat(q[1] * r[2] * Sgn(r[1]), q[2] * Abs(r[1]))
RLt(q, r) == q[1] * r[2] < r[1] * q[2]
RLe(q, r) == q[1] * r[2] <= r[1] * q[2]
\* conversion of a double to int: truncation toward zero
Trunc(q) == Sgn(q[1]) * (Abs(q[1]) \div q[2])

\* sum of f[k] for lo <= k <= hi
RECURSIVE SumRange(_, _, _)
SumRange(f, lo, hi) == IF hi < lo THEN Zero ELSE RAdd(SumRange(f, lo, hi - 1), f[hi])

\* integer sum of f[k] for lo <= k <= hi
RECURSIVE ISum(_, _, _)
ISum(f, lo, hi) == IF hi < lo THEN 0 ELSE ISum(f, lo, hi - 1) + f[hi]

-----------------------------------------------------------------------------
(* Shapes. *)

Grid == (0 .. nrow - 1) \X (0 .. ncol - 1)
Classes == 0 .. nclass - 1
EnvVars == 0 .. nenv - 1

ZeroMat == [c \in Grid |-> Zero]
ZeroCube == [k \in Classes |-> ZeroMat]

MatAdd(A, B) == [c \in DOMAIN A |-> RAdd(A[c], B[c])]

\* the sum over the classes of an array at a cell
ClassSum(C, c) == SumRange([k \in Classes |-> C[k][c]], 0, nclass - 1)

\* sum(cube, 2): the per-cell sum over the slices lo..hi
SliceSum(C, lo, hi) == [c \in Grid |-> SumRange([k \in lo .. hi |-> C[k][c]], lo, hi)]

\* a default_random_engine: the seed it was constructed from and the number of
\* values drawn from it since
Engine(sd) == [seed |-> sd, pos |-> 0]

-----------------------------------------------------------------------------
(* transition: the probability field of one source class. *)

\* accu(beta.tube(t, s)), accu(gamma.tube(t, s))
AccuBeta(t, sc) == SumRange([k \in Classes |-> beta[t, sc, k]], 0, nclass - 1)
AccuGamma(t, sc) == SumRange([e \in EnvVars |-> gamma[t, sc, e]], 0, nenv - 1)

\* the test that skips a (target, source) pair
SkipPair(t, sc) == RAdd(RAdd(alpha[t, sc], AccuBeta(t, sc)), AccuGamma(t, sc)) = Zero

\* intercept + density dependence + environmental dependence, per cell
Predictor(t, sc) ==
    [c \in Grid |->
        RAdd(RAdd(alpha[t, sc],
                  SumRange([k \in Classes |-> RMul(N[k][c], beta[t, sc, k])], 0, nclass - 1)),
             SumRange([e \in EnvVars |-> RMul(E[e][c], gamma[t, sc, e])], 0, nenv - 1))]

\* p after the loop over the target classes (p was filled with zeros before it)
BuildField(sc) == [t \in Classes |-> IF SkipPair(t, sc) THEN ZeroMat ELSE Predictor(t, sc)]

\* clamp(p, 0, 1)
Clamp01(q) == IF RLt(q, Zero) THEN Zero ELSE IF RLt(One, q) THEN One ELSE q
ClampCube(C) == [k \in DOMAIN C |-> [c \in Grid |-> Clamp01(C[k][c])]]

\* (mutant) every cell is divided by its sum, a sum below 1 included
RenormCellAlways(v, psum) == IF psum = Zero THEN v ELSE RDiv(v, psum)

\* the joint constraint: a cell whose sum over the targets exceeds 1 is divided by it
RenormCell(v, psum) == IF RLt(One, psum) THEN RDiv(v, psum) ELSE v
RenormCube(C) ==
    LET psum == SliceSum(C, 0, nclass - 1)
    IN  [k \in DOMAIN C |-> [c \in Grid |-> RenormCell(C[k][c], psum[c])]]


-----------------------------------------------------------------------------
(* rbinom_trans, rmultinom_trans. *)

\* what std::binomial_distribution<>(n, q) can return: q = 0 gives 0, q = 1 gives
\* n, a q strictly between gives any count of 0..n; a NaN q breaks the
\* distribution's precondition, and the count that comes out is taken to be one
\* of 0..n (libstdc++ returns n)
Binomial(n, q) ==
    IF n <= 0 THEN {0}
    ELSE IF q = Zero THEN {0}
    ELSE IF q = One THEN {n}
    ELSE 0 .. n

\* the place of a cell in the element order of a matrix (column-major)
ElemIndex(c) == c[1] + c[2] * nrow

\* the p argument rmultinom_trans hands to rbinom_trans for target i:
\* probs.slice(i) / (p + m), with p the sum of the slices i..last
DrawProbs(probs, mort, k) ==
    LET psum == SliceSum(probs, k, nclass - 1)
    IN  [c \in Grid |-> RDiv(probs[k][c], RAdd(psum[c], mort[c]))]

\* m = 1 - sum(probs, 2)
Mortality(probs) ==
    LET psum == SliceSum(probs, 0, nclass - 1)
    IN  [c \in Grid |-> RSub(One, psum[c])]

\* arma::min(draw, u)
CapDraw(dr, un) == [c \in Grid |-> IF dr[c] < un[c] THEN dr[c] ELSE un[c]]

\* (mutant) the pool is not reduced by what was allocated
UnallocatedStale(un, yi) == un

\* u = u - y.slice(i)
Unallocated(un, yi) == [c \in Grid |-> un[c] - yi[c]]

\* the generator state each element's draw of one rbinom_trans call is taken
\* from: the call's own copy g of the generator, advanced once per element
DrawStates(g, sc, k) ==
    [c \in Grid |-> [fn |-> "rbinom_trans", call |-> <<sc, k, c>>,
                     seed |-> g.seed, pos |-> g.pos + ElemIndex(c)]]

\* the cell at place k of the element order
CellAt(k) == <<k % nrow, k \div nrow>>

\* the draws of one rbinom_trans call, in element order
DrawLog(g, sc, k) == [j \in 1 .. nrow * ncol |-> DrawStates(g, sc, k)[CellAt(j - 1)]]

\* the largest entry of an integer matrix (0 when none is positive)
MaxEntry(M) == IF \A c \in DOMAIN M : M[c] <= 0 THEN 0
               ELSE CHOOSE v \in {M[c] : c \in DOMAIN M} : \A c \in DOMAIN M : M[c] <= v

NoFrame == [c \in {} |-> 0]

-----------------------------------------------------------------------------
(* transition, one action per statement group of one source class. *)

\* lines 60-64: the locals of transition at entry, for the arguments given
TransitionEntry(rows, cols, classes, sd) ==
    /\ NN' = [k \in 0 .. classes - 1 |-> [c \in (0 .. rows - 1) \X (0 .. cols - 1) |-> Zero]]
    /\ p' = [k \in 0 .. classes - 1 |-> [c \in (0 .. rows - 1) \X (0 .. cols - 1) |-> Zero]]
    /\ s' = 0
    /\ gen' = Engine(sd)
    /\ tpc' = "build"
    /\ popn' = NoFrame /\ y' = NoFrame /\ m' = NoFrame /\ u' = NoFrame
    /\ i' = 0 /\ mgen' = NoFrame /\ bp' = NoFrame
    /\ draws' = << >>

\* lines 68-98: p.fill(0) and the loop over the target classes
TrBuild ==
    /\ tpc = "build"
    /\ p' = BuildField(s)
    /\ tpc' = "clamp"
    /\ UNCHANGED <<N, E, alpha, beta, gamma, rand, tseed, NN, s, gen,
                   popn, y, m, u, i, mgen, bp, draws>>

\* line 101
TrClamp ==
    /\ tpc = "clamp"
    /\ p' = ClampCube(p)
    /\ tpc' = "renorm"
    /\ UNCHANGED <<N, E, alpha, beta, gamma, rand, tseed, NN, s, gen,
                   popn, y, m, u, i, mgen, bp, draws>>

\* lines 102-109
TrRenorm ==
    /\ tpc = "renorm"
    /\ p' = RenormCube(p)
    /\ tpc' = "alloc"
    /\ UNCHANGED <<N, E, alpha, beta, gamma, rand, tseed, NN, s, gen,
                   popn, y, m, u, i, mgen, bp, draws>>

\* the source loop's increment and test
NextSource == /\ s' = s + 1
              /\ tpc' = IF s + 1 < nclass THEN "build" ELSE "done"

\* (mutant) the share of the source that goes to no target stays in the source class
DetAllocationRetain(sc) ==
    [t \in Classes |-> [c \in Grid |->
        RAdd(RAdd(NN[t][c], RMul(N[sc][c], p[t][c])),
             IF t = sc THEN RMul(N[sc][c], RSub(One, ClassSum(p, c))) ELSE Zero)]]

\* NN.slice(t) + N.slice(s) % p.slice(t), for every target t
DetAllocation(sc) ==
    [t \in Classes |-> [c \in Grid |-> RAdd(NN[t][c], RMul(N[sc][c], p[t][c]))]]

\* lines 115-119: the deterministic allocation
TrAllocDet ==
    /\ tpc = "alloc" /\ ~rand
    /\ NN' = DetAllocation(s)
    /\ NextSource
    /\ UNCHANGED <<N, E, alpha, beta, gamma, rand, tseed, p, gen,
                   popn, y, m, u, i, mgen, bp, draws>>

\* line 113 calling rmultinom_trans, lines 23-27: the generator is passed by value
TrEnterMultinom ==
    /\ tpc = "alloc" /\ rand
    /\ popn' = [c \in Grid |-> Trunc(N[s][c])]
    /\ y' = [k \in Classes |-> [c \in Grid |-> 0]]
    /\ m' = Mortality(p)
    /\ u' = popn'
    /\ i' = 0
    /\ mgen' = gen
    /\ tpc' = "draw"
    /\ UNCHANGED <<N, E, alpha, beta, gamma, rand, tseed, NN, p, s, gen, bp, draws>>

\* lines 29-33, one iteration: rbinom_trans (lines 7-16) draws every element from
\* its own copy of the generator, which is discarded when it returns
TrDraw ==
    /\ tpc = "draw" /\ i < nclass
    /\ bp' = DrawProbs(p, m, i)
    /\ \E dr \in [Grid -> 0 .. MaxEntry(u)] :
          /\ \A c \in Grid : dr[c] \in Binomial(u[c], bp'[c])
          /\ y' = [y EXCEPT ![i] = CapDraw(dr, u)]
    /\ u' = Unallocated(u, y'[i])
    /\ i' = i + 1
    /\ draws' = draws \o DrawLog(mgen, s, i)
    /\ UNCHANGED <<N, E, alpha, beta, gamma, rand, tseed, NN, p, s, gen,
                   popn, m, mgen, tpc>>

\* line 35 and lines 113-114: NN = NN + y, ++seed
TrReturnMultinom ==
    /\ tpc = "draw" /\ i >= nclass
    /\ NN' = [t \in Classes |-> [c \in Grid |-> RAdd(NN[t][c], R(y[t][c]))]]
    /\ tseed' = tseed + 1
    /\ NextSource
    /\ popn' = NoFrame /\ y' = NoFrame /\ m' = NoFrame /\ u' = NoFrame
    /\ i' = 0 /\ mgen' = NoFrame /\ bp' = NoFrame
    /\ UNCHANGED <<N, E, alpha, beta, gamma, rand, p, gen, draws>>


-----------------------------------------------------------------------------
(* reproduce. *)

\* lines 134-146: the sum over the classes of N.slice(i) * f(i)
reproduce(pop, f) ==
    [c \in Grid |-> SumRange([k \in Classes |-> IF f[k] = Zero THEN Zero
                                               ELSE RMul(pop[k][c], f[k])], 0, nclass - 1)]

-----------------------------------------------------------------------------
(* disperse, rmultinom_disp, rbinom_disp. *)

\* int r = (N.n_rows - 1) / 2
Radius == (nk - 1) \div 2

KernelCells == (0 .. nk - 1) \X (0 .. nk - 1)
Padded == (0 .. nrow + Radius * 2 - 1) \X (0 .. ncol + Radius * 2 - 1)

\* accu of a matrix of the given number of rows and columns
Accu(M, rows, cols) ==
    SumRange([k \in 0 .. rows * cols - 1 |-> M[<<k % rows, k \div rows>>]], 0, rows * cols - 1)

\* arma::sort_index(K, "descent") of a kernel of side ksize: its cells by
\* descending weight; cells of equal weight are taken in element order
\* (column-major).  Built by inserting the cells in element order.
RECURSIVE SortIndex(_, _, _)
SortIndex(K, ksize, n) ==
    IF n = 0 THEN << >>
    ELSE LET sorted == SortIndex(K, ksize, n - 1)
             c == <<(n - 1) % ksize, (n - 1) \div ksize>>
             before == Cardinality({j \in 1 .. n - 1 : ~RLt(K[sorted[j]], K[c])})
         IN  SubSeq(sorted, 1, before) \o <<c>> \o SubSeq(sorted, before + 1, n - 1)

\* T.submat(a, b, a + r * 2, b + r * 2) + W: W added to the window at (a, b)
AddWindow(M, ra, cb, W) ==
    [c \in DOMAIN M |->
        IF c[1] >= ra /\ c[1] <= ra + Radius * 2 /\ c[2] >= cb /\ c[2] <= cb + Radius * 2
        THEN RAdd(M[c], W[<<c[1] - ra, c[2] - cb>>])
        ELSE M[c]]

\* S(a, b) * N
Spread(v, K) == [c \in DOMAIN K |-> RMul(v, K[c])]

\* T.row(tgt) = T.row(tgt) + T.row(src), T.col(tgt) = T.col(tgt) + T.col(src)
AddRow(M, tgt, src) == [c \in DOMAIN M |-> IF c[1] = tgt THEN RAdd(M[c], M[<<src, c[2]>>])
                                                       ELSE M[c]]
AddCol(M, tgt, src) == [c \in DOMAIN M |-> IF c[2] = tgt THEN RAdd(M[c], M[<<c[1], src>>])
                                                       ELSE M[c]]

\* the four statements of one iteration of the reflection loop (lines 226-231)
FoldTop(M, k) == AddRow(M, Radius * 2 - 1 - k, k)
FoldLeft(M, k) == AddCol(M, Radius * 2 - 1 - k, k)
\* (mutant) the bottom border row is added one row too low
FoldBottomLow(M, k) ==
    LET rows == nrow + Radius * 2
    IN  AddRow(M, rows - (Radius * 2 - 1 - k), rows - 1 - k)
FoldBottom(M, k) ==
    LET rows == nrow + Radius * 2
    IN  AddRow(M, rows - (Radius * 2 - 1 - k) - 1, rows - 1 - k)
FoldRight(M, k) ==
    LET cols == ncol + Radius * 2
    IN  AddCol(M, cols - (Radius * 2 - 1 - k) - 1, cols - 1 - k)
FoldLayer(M, k) == FoldRight(FoldBottom(FoldLeft(FoldTop(M, k), k), k), k)

\* T.submat(r, r, S.n_rows + r - 1, S.n_cols + r - 1)
Interior(M) == [c \in Grid |-> M[<<c[1] + Radius, c[2] + Radius>>]]

\* lines 201-206: the locals of disperse at entry, for the arguments given
DisperseEntry(rows, cols, ksize, sd) ==
    /\ T' = [c \in (0 .. rows + ((ksize - 1) \div 2) * 2 - 1)
                   \X (0 .. cols + ((ksize - 1) \div 2) * 2 - 1) |-> Zero]
    /\ a' = 0 /\ b' = 0 /\ fi' = 0
    /\ dgen' = Engine(sd)
    /\ Ni' = SortIndex(nb, ksize, ksize * ksize)
    /\ dpc' = "scatter"
    /\ dret' = NoFrame
    /\ dprobs' = NoFrame /\ du' = 0 /\ di' = 0 /\ dy' = NoFrame
    /\ draws' = << >>

\* the increments and tests of the two loops over the cells of S
NextCell ==
    /\ b' = IF b + 1 < ncol THEN b + 1 ELSE 0
    /\ a' = IF b + 1 < ncol THEN a ELSE a + 1
    /\ dpc' = IF b + 1 < ncol \/ a + 1 < nrow THEN "scatter" ELSE "fold"

\* lines 216-218: the deterministic spread of one cell
DispSpread ==
    /\ dpc = "scatter" /\ ~rand
    /\ T' = AddWindow(T, a, b, Spread(S[<<a, b>>], nb))
    /\ NextCell
    /\ UNCHANGED <<S, nb, nk, Ni, reflect, dseed, fi, dgen, dret, dprobs, du, di, dy, draws>>

\* line 214 calling rmultinom_disp, lines 165-168: the generator is passed by value
DispEnterMultinom ==
    /\ dpc = "scatter" /\ rand
    /\ dprobs' = nb
    /\ du' = Trunc(S[<<a, b>>])
    /\ di' = 0
    /\ dy' = [c \in KernelCells |-> 0]
    /\ dpc' = "draw"
    /\ UNCHANGED <<S, nb, nk, Ni, reflect, dseed, T, a, b, fi, dgen, dret, draws>>

\* lines 170-179, one iteration: rbinom_disp (lines 152-157) draws from its own
\* copy of the generator, which is discarded when it returns
DispDraw ==
    /\ dpc = "draw"
    /\ LET ii == Ni[di + 1]
           pr == RDiv(dprobs[ii], Accu(dprobs, nk, nk))
       IN  /\ \E dr \in Binomial(du, pr) :
                 /\ dy' = [dy EXCEPT ![ii] = IF dr < du THEN dr ELSE du]
                 /\ du' = du - dy'[ii]
           /\ draws' = Append(draws, [fn |-> "rbinom_disp", call |-> <<a, b, ii>>,
                                      seed |-> dgen.seed, pos |-> dgen.pos])
           /\ IF du' = 0
              THEN /\ dpc' = "spread" /\ UNCHANGED <<dprobs, di>>
              ELSE /\ dprobs' = [dprobs EXCEPT ![ii] = Zero]
                   /\ di' = di + 1
                   /\ dpc' = IF di + 1 < nk * nk THEN "draw" ELSE "spread"
    /\ UNCHANGED <<S, nb, nk, Ni, reflect, dseed, T, a, b, fi, dgen, dret>>

\* line 181 and lines 212-214: the counts of the cell added to its window
DispReturnMultinom ==
    /\ dpc = "spread"
    /\ T' = AddWindow(T, a, b, [c \in KernelCells |-> R(dy[c])])
    /\ NextCell
    /\ dprobs' = NoFrame /\ du' = 0 /\ di' = 0 /\ dy' = NoFrame
    /\ UNCHANGED <<S, nb, nk, Ni, reflect, dseed, fi, dgen, dret, draws>>

\* lines 225-232, one iteration of the reflection loop
DispFold ==
    /\ dpc = "fold" /\ reflect /\ fi < Radius
    /\ T' = FoldLayer(T, fi)
    /\ fi' = fi + 1
    /\ UNCHANGED <<S, nb, nk, Ni, reflect, dseed, a, b, dgen, dpc, dret, dprobs, du, di, dy, draws>>

\* line 235
DispReturn ==
    /\ dpc = "fold" /\ ~(reflect /\ fi < Radius)
    /\ dret' = Interior(T)
    /\ dpc' = "done"
    /\ UNCHANGED <<S, nb, nk, Ni, reflect, dseed, T, a, b, fi, dgen, dprobs, du, di, dy, draws>>

-----------------------------------------------------------------------------
(* sim. *)

\* lines 267-270 and env(ei(i)): the environment of step k, 0 for a single
\* environment and k for one environment per step
EnvIndex(k) == IF Len(env) > 1 THEN k ELSE 0

\* the seeds sim hands to transition and to disperse at step k (lines 276-277)
TransitionSeed(sd, k) == sd * k
DisperseSeed(sd, k) == sd * k + 1

\* lines 272-273: d with its slice 0 written
Trajectory0(pop, rec, steps) ==
    [k \in 0 .. steps |-> IF k = 0 THEN pop[rec] ELSE [c \in DOMAIN pop[rec] |-> Zero]]

\* line 277: N.slice(0) = N.slice(0) + the dispersed output
Recruit(pop, out) == [pop EXCEPT ![0] = MatAdd(pop[0], out)]

\* (mutant) the recorded class is stored in the slice of the step's own index
RecordAtStep(traj, k, pop) == [traj EXCEPT ![k] = pop[record]]

\* line 278: d.slice(i + 1) = N.slice(record)
Record(traj, k, pop) == [traj EXCEPT ![k + 1] = pop[record]]

\* the history of a step: the array transition returned, the matrix handed to
\* disperse, the matrix disperse returned, N at the end of the step
StepCalled(tr, seeds) == [trans |-> tr, seeds |-> seeds, out |-> NoFrame, pop |-> NoFrame]
StepDone(h, out, pop) == [h EXCEPT !.out = out, !.pop = pop]

\* line 276: the call of transition at step si
SimCallTransition ==
    /\ spc = "loop" /\ si < nsteps
    /\ E' = env[EnvIndex(si) + 1]
    /\ tseed' = TransitionSeed(seed, si)
    /\ seedsUsed' = Append(seedsUsed, tseed')
    /\ TransitionEntry(nrow, ncol, nclass, tseed')
    /\ spc' = "transition"
    /\ UNCHANGED <<nrow, ncol, nclass, nenv, N, alpha, beta, gamma, rand, dispVars,
                   env, fecundity, seed, record, nsteps, d, si, hist>>

\* line 276: N = the array transition returned; line 277: the call of disperse
\* on reproduce(N, fecundity)
SimCallDisperse ==
    /\ spc = "transition" /\ tpc = "done"
    /\ N' = NN
    /\ S' = reproduce(NN, fecundity)
    /\ dseed' = DisperseSeed(seed, si)
    /\ seedsUsed' = Append(seedsUsed, dseed')
    /\ DisperseEntry(nrow, ncol, nk, dseed')
    /\ spc' = "disperse"
    /\ E' = NoFrame /\ tseed' = 0 /\ NN' = NoFrame /\ p' = NoFrame /\ s' = 0
    /\ gen' = NoFrame /\ tpc' = "idle"
    /\ hist' = Append(hist, StepCalled(NN, S'))
    /\ UNCHANGED <<nrow, ncol, nclass, nenv, alpha, beta, gamma, rand,
                   popn, y, m, u, i, mgen, bp, nb, nk, reflect,
                   env, fecundity, seed, record, nsteps, d, si>>

\* lines 277-278: the dispersed output added to class 0, the recorded class stored
SimRecord ==
    /\ spc = "disperse" /\ dpc = "done"
    /\ N' = Recruit(N, dret)
    /\ d' = Record(d, si, N')
    /\ hist' = [hist EXCEPT ![Len(hist)] = StepDone(@, dret, N')]
    /\ si' = si + 1
    /\ spc' = "loop"
    /\ S' = NoFrame /\ dseed' = 0 /\ Ni' = << >> /\ T' = NoFrame /\ a' = 0 /\ b' = 0
    /\ fi' = 0 /\ dgen' = NoFrame /\ dpc' = "idle" /\ dret' = NoFrame
    /\ UNCHANGED <<nrow, ncol, nclass, nenv, E, alpha, beta, gamma, rand, tseed, NN, p, s,
                   gen, tpc, popn, y, m, u, i, mgen, bp, draws, nb, nk, reflect,
                   dprobs, du, di, dy, env, fecundity, seed, record, nsteps, seedsUsed>>

\* line 281
SimReturn ==
    /\ spc = "loop" /\ si >= nsteps
    /\ spc' = "done"
    /\ UNCHANGED <<nrow, ncol, nclass, nenv, trVars, dispVars, draws,
                   env, fecundity, seed, record, nsteps, d, si, hist, seedsUsed>>

-----------------------------------------------------------------------------
(* Specifications. *)

\* no call of transition, of disperse, of sim in progress
TransitionIdle ==
    /\ E = NoFrame /\ tseed = 0 /\ NN = NoFrame /\ p = NoFrame /\ s = 0
    /\ gen = NoFrame /\ tpc = "idle"
    /\ popn = NoFrame /\ y = NoFrame /\ m = NoFrame /\ u = NoFrame
    /\ i = 0 /\ mgen = NoFrame /\ bp = NoFrame

DisperseIdle ==
    /\ S = NoFrame /\ dseed = 0 /\ Ni = << >> /\ T = NoFrame /\ a = 0 /\ b = 0 /\ fi = 0
    /\ dgen = NoFrame /\ dpc = "idle" /\ dret = NoFrame
    /\ dprobs = NoFrame /\ du = 0 /\ di = 0 /\ dy = NoFrame

SimIdle ==
    /\ env = << >> /\ fecundity = NoFrame /\ seed = 0 /\ record = 0 /\ nsteps = 0
    /\ d = NoFrame /\ si = 0 /\ spc = "idle" /\ hist = << >> /\ seedsUsed = << >>

\* transition entered with its locals constructed (lines 60-64)
TransitionEntered ==
    /\ NN = ZeroCube /\ p = ZeroCube /\ s = 0 /\ gen = Engine(tseed) /\ tpc = "build"
    /\ popn = NoFrame /\ y = NoFrame /\ m = NoFrame /\ u = NoFrame
    /\ i = 0 /\ mgen = NoFrame /\ bp = NoFrame

\* the coefficient values the inputs are drawn from
AlphaVals == {Zero, Half, One}
EffectVals == {<<-1, 2>>, Zero, Half}

\* a coefficient array that is v at index ix and 0 elsewhere
Single(D, ix, v) == [j \in D |-> IF j = ix THEN v ELSE Zero]

\* the intercept matrix whose column of source 0 is c0 and of source 1 is c1
Columns(c0, c1) == [ix \in Classes \X Classes |-> IF ix[2] = 0 THEN c0[ix[1]] ELSE c1[ix[1]]]

\* one call of transition on a grid of one row and two columns with two classes
\* and one environmental variable: every intercept over AlphaVals for source 0,
\* none or (0, 1) for source 1, one density effect (of class 1 on the
\* transition 0 -> 0) and one environmental effect (on the same transition),
\* every integer population up to MaxPop in the first cell and 0 or MaxPop in the
\* second, the environment all 0 or all 1
InitTrans ==
    /\ nrow = 1 /\ ncol = 2 /\ nclass = 2 /\ nenv = 1
    /\ rand \in BOOLEAN
    /\ \E n0 \in [Classes -> 0 .. MaxPop], n1 \in [Classes -> {0, MaxPop}] :
          N = [k \in Classes |-> [c \in Grid |-> IF c[2] = 0 THEN R(n0[k]) ELSE R(n1[k])]]
    /\ \E v \in {Zero, One} : E = [e \in EnvVars |-> [c \in Grid |-> v]]
    /\ \E c0 \in [Classes -> AlphaVals], c1 \in {<<Zero, Zero>>, <<Zero, One>>} :
          alpha = Columns(c0, [k \in Classes |-> c1[k + 1]])
    /\ \E v \in EffectVals : beta = Single(Classes \X Classes \X Classes, <<0, 0, 1>>, v)
    /\ \E v \in {<<-1, 2>>, Zero} :
          gamma = Single(Classes \X Classes \X EnvVars, <<0, 0, 0>>, v)
    /\ tseed = 1
    /\ TransitionEntered
    /\ draws = << >>
    /\ nb = NoFrame /\ nk = 0 /\ reflect = FALSE
    /\ DisperseIdle /\ SimIdle

\* the variables a call of transition leaves alone, and a call of disperse
TransitionFrame == UNCHANGED <<nrow, ncol, nclass, nenv, dispVars, simVars>>
DisperseFrame ==
    UNCHANGED <<nrow, ncol, nclass, nenv, N, E, alpha, beta, gamma, rand,
                tseed, NN, p, s, gen, tpc, popn, y, m, u, i, mgen, bp, simVars>>

NextTrans ==
    \/ TrBuild /\ TransitionFrame
    \/ TrClamp /\ TransitionFrame
    \/ TrRenorm /\ TransitionFrame
    \/ TrAllocDet /\ TransitionFrame
    \/ TrEnterMultinom /\ TransitionFrame
    \/ TrDraw /\ TransitionFrame
    \/ TrReturnMultinom /\ TransitionFrame

SpecTrans == InitTrans /\ [][NextTrans]_vars


\* the pairs of weights a kernel of the inputs is built from
KernelSplits == {<<One, Zero>>, <<Half, Half>>, <<<<1, 4>>, <<3, 4>>>>, <<Half, Zero>>}

\* the kernel of side ksize with weight w[1] at offset o, plus w[2] at its centre
TwoPoint(ksize, o, w) ==
    LET ctr == <<(ksize - 1) \div 2, (ksize - 1) \div 2>>
    IN  [c \in (0 .. ksize - 1) \X (0 .. ksize - 1) |->
            RAdd(IF c = o THEN w[1] ELSE Zero, IF c = ctr THEN w[2] ELSE Zero)]

\* disperse entered with its locals constructed (lines 201-206)
DisperseEntered ==
    /\ T = [c \in Padded |-> Zero]
    /\ a = 0 /\ b = 0 /\ fi = 0
    /\ dgen = Engine(dseed)
    /\ Ni = SortIndex(nb, nk, nk * nk)
    /\ dpc = "scatter"
    /\ dret = NoFrame
    /\ dprobs = NoFrame /\ du = 0 /\ di = 0 /\ dy = NoFrame

\* one call of disperse: every grid of up to MaxSide rows and columns, every
\* integer seed field on it, every radius up to MaxR, a kernel of two weights
InitDisp ==
    /\ nrow \in 1 .. MaxSide /\ ncol \in 1 .. MaxSide
    /\ nclass = 0 /\ nenv = 0
    /\ nk \in {2 * r + 1 : r \in 0 .. MaxR}
    /\ S \in [Grid -> {R(k) : k \in 0 .. MaxSeed}]
    /\ \E o \in KernelCells, w \in KernelSplits : nb = TwoPoint(nk, o, w)
    /\ reflect \in BOOLEAN
    /\ rand \in BOOLEAN
    /\ dseed = 1
    /\ DisperseEntered
    /\ draws = << >>
    /\ N = NoFrame /\ alpha = NoFrame /\ beta = NoFrame /\ gamma = NoFrame
    /\ TransitionIdle /\ SimIdle

NextDisp ==
    \/ DispSpread /\ DisperseFrame
    \/ DispEnterMultinom /\ DisperseFrame
    \/ DispDraw /\ DisperseFrame
    \/ DispReturnMultinom /\ DisperseFrame
    \/ DispFold /\ DisperseFrame
    \/ DispReturn /\ DisperseFrame

SpecDisp == InitDisp /\ [][NextDisp]_vars

\* the populations of a sim run: at most one individual in all, or (in
\* deterministic mode) a single negative count
SimPops(stochastic) ==
    LET Cells == Classes \X Grid
        One1(ix, v) == [k \in Classes |-> [c \in Grid |-> IF <<k, c>> = ix THEN R(v) ELSE Zero]]
    IN  {ZeroCube} \cup {One1(ix, 1) : ix \in Cells}
                   \cup (IF stochastic THEN {} ELSE {One1(<<1, <<0, 0>>>>, -1)})

\* the environment sequences of a sim run of the given number of steps: a single
\* environment (all 0 or all 1), or one per step, alternating 0 and 1
SimEnvs(steps) ==
    LET Const(v) == [e \in EnvVars |-> [c \in Grid |-> v]]
    IN  {<<Const(Zero)>>, <<Const(One)>>}
        \cup (IF steps > 1
              THEN {[k \in 1 .. steps |-> IF k % 2 = 1 THEN Const(Zero) ELSE Const(One)]}
              ELSE {})

\* the kernels of a sim run: radius 0 or 1, two weights, or a negative weight
SimKernels ==
    {TwoPoint(1, <<0, 0>>, <<Half, Half>>)}
    \cup {TwoPoint(3, o, <<Half, Half>>) : o \in {<<0, 0>>, <<1, 2>>}}
    \cup {TwoPoint(3, <<1, 0>>, <<<<-1, 2>>, One>>)}

KernelSide(K) == IF <<2, 2>> \in DOMAIN K THEN 3 ELSE 1

\* sim entered with its locals constructed (lines 267-273)
SimEntered ==
    /\ d = Trajectory0(N, record, nsteps)
    /\ si = 0
    /\ spc = "loop"
    /\ hist = <<StepDone(StepCalled(NoFrame, NoFrame), NoFrame, N)>>
    /\ seedsUsed = << >>

\* one run of sim on a grid of one row and two columns with two classes:
\* juveniles (class 0) mature with probability 1/2 plus an environmental effect,
\* adults (class 1) survive and bear one seed each
InitSim ==
    /\ nrow = 1 /\ ncol = 2 /\ nclass = 2 /\ nenv = 1
    /\ rand \in BOOLEAN
    /\ reflect \in BOOLEAN
    /\ N \in SimPops(rand)
    /\ nsteps \in 0 .. MaxSteps
    /\ env \in SimEnvs(nsteps)
    /\ alpha = [ix \in Classes \X Classes |->
                   IF ix = <<1, 0>> THEN Half ELSE IF ix = <<1, 1>> THEN One ELSE Zero]
    /\ beta = [ix \in Classes \X Classes \X Classes |-> Zero]
    /\ \E v \in {Zero, Half} : gamma = Single(Classes \X Classes \X EnvVars, <<1, 0, 0>>, v)
    /\ fecundity = [k \in Classes |-> IF k = 1 THEN One ELSE Zero]
    /\ nb \in SimKernels
    /\ nk = KernelSide(nb)
    /\ seed \in 0 .. 2
    /\ record \in Classes
    /\ SimEntered
    /\ draws = << >>
    /\ TransitionIdle /\ DisperseIdle

NextSim ==
    \/ SimCallTransition
    \/ SimCallDisperse
    \/ SimRecord
    \/ SimReturn
    \/ NextTrans
    \/ NextDisp

SpecSim == InitSim /\ [][NextSim]_vars

\* one call of transition on a grid of one cell with three classes: ten
\* individuals in one class, a single non-zero intercept (1/2 or 1), no density
\* and no environmental effect
InitScenario ==
    /\ nrow = 1 /\ ncol = 1 /\ nclass = 3 /\ nenv = 1
    /\ rand \in BOOLEAN
    /\ \E k0 \in Classes : N = [k \in Classes |-> [c \in Grid |-> IF k = k0 THEN R(10) ELSE Zero]]
    /\ E = [e \in EnvVars |-> [c \in Grid |-> Zero]]
    /\ \E ix \in Classes \X Classes, v \in {Half, One} : alpha = Single(Classes \X Classes, ix, v)
    /\ beta = [ix \in Classes \X Classes \X Classes |-> Zero]
    /\ gamma = [ix \in Classes \X Classes \X EnvVars |-> Zero]
    /\ tseed = 1
    /\ TransitionEntered
    /\ draws = << >>
    /\ nb = NoFrame /\ nk = 0 /\ reflect = FALSE
    /\ DisperseIdle /\ SimIdle

SpecScenario == InitScenario /\ [][NextTrans]_vars

-----------------------------------------------------------------------------
(* The claims. *)

\* C1: in stochastic mode the counts rmultinom_trans allocates from a source
\* class at a cell, summed over the targets, never exceed the source count there
\* and the unallocated pool u never goes negative; so the returned NN, summed
\* over the classes at a cell, never exceeds N summed over the classes there.
NoFabricatedIndividuals ==
    rand =>
        /\ tpc = "draw" =>
              \A c \in Grid :
                  /\ u[c] >= 0
                  /\ ISum([k \in Classes |-> y[k][c]], 0, nclass - 1) <= Trunc(N[s][c])
        /\ tpc = "done" => \A c \in Grid : RLe(ClassSum(NN, c), ClassSum(N, c))

\* a stochastic call has returned; at some cell part of the population was
\* allocated and part was not
SomeAllocatedSomeLost ==
    /\ rand /\ tpc = "done"
    /\ \E c \in Grid : /\ RLt(Zero, ClassSum(NN, c))
                       /\ RLt(ClassSum(NN, c), ClassSum(N, c))

\* C3, as claimed: the scenario of the specification returns [5, 5, 0].
ScenarioInput ==
    /\ nrow = 1 /\ ncol = 1 /\ nclass = 3 /\ ~rand
    /\ N = [k \in Classes |-> [c \in Grid |-> IF k = 0 THEN R(10) ELSE Zero]]
    /\ alpha = Single(Classes \X Classes, <<1, 0>>, Half)
    /\ \A ix \in DOMAIN beta : beta[ix] = Zero
    /\ \A ix \in DOMAIN gamma : gamma[ix] = Zero

ScenarioRetainsSource ==
    (ScenarioInput /\ tpc = "done") =>
        NN = [k \in Classes |-> [c \in Grid |-> IF k \in {0, 1} THEN R(5) ELSE Zero]]

\* C3, amended: the scenario returns [0, 5, 0]; class 2 receives 5 and the 5
\* individuals of class 1 that did not transition are not kept.
ScenarioComplementDies ==
    (ScenarioInput /\ tpc = "done") =>
        NN = [k \in Classes |-> [c \in Grid |-> IF k = 1 THEN R(5) ELSE Zero]]

\* the scenario has run to its end
ScenarioDone == ScenarioInput /\ tpc = "done"

\* the linear predictor of every pair, none skipped, clamped and renormalised
RefProbs(sc) == RenormCube(ClampCube([t \in Classes |-> Predictor(t, sc)]))
RefOutput ==
    [t \in Classes |-> [c \in Grid |->
        SumRange([sc \in Classes |-> RMul(N[sc][c], RefProbs(sc)[t][c])], 0, nclass - 1)]]
AllZero(t, sc) ==
    /\ alpha[t, sc] = Zero
    /\ \A k \in Classes : beta[t, sc, k] = Zero
    /\ \A e \in EnvVars : gamma[t, sc, e] = Zero

\* C7: a pair is skipped exactly when its intercept and all its density and
\* environment coefficients are zero, the field handed to the allocation is the
\* one computed with no skipping, and so is the deterministic output.
SkipIsPureOptimisation ==
    /\ tpc = "clamp" => \A t \in Classes : SkipPair(t, s) <=> AllZero(t, s)
    /\ tpc = "alloc" => p = RefProbs(s)
    /\ (tpc = "done" /\ ~rand) => NN = RefOutput

\* C8: the clamp puts every predictor into [0,1]; a cell whose clamped sum
\* exceeds 1 has every target divided by that sum, and then sums to 1; a cell
\* whose sum does not exceed 1 is left as it is; the field handed to the
\* allocation has every entry in [0,1] and sums to at most 1 at every cell.
ProbabilityFieldConstrained ==
    [][/\ (tpc = "clamp" /\ tpc' = "renorm") =>
              \A t \in Classes, c \in Grid :
                  p'[t][c] = IF RLt(p[t][c], Zero) THEN Zero
                             ELSE IF RLt(One, p[t][c]) THEN One ELSE p[t][c]
       /\ (tpc = "renorm" /\ tpc' = "alloc") =>
              \A c \in Grid :
                  /\ RLt(One, ClassSum(p, c)) =>
                        /\ \A t \in Classes : p'[t][c] = RDiv(p[t][c], ClassSum(p, c))
                        /\ ClassSum(p', c) = One
                  /\ ~RLt(One, ClassSum(p, c)) => \A t \in Classes : p'[t][c] = p[t][c]
                  /\ \A t \in Classes : RLe(Zero, p'[t][c]) /\ RLe(p'[t][c], One)
                  /\ RLe(ClassSum(p', c), One)
      ]_vars

\* a field is handed to the allocation in which one cell was divided by its sum
\* 3/2 and another, of a sum below 1, was left as it was
OneCellShrunkOneKept ==
    /\ tpc = "alloc"
    /\ \E c \in Grid : p[0][c] = <<2, 3>> /\ p[1][c] = <<1, 3>>
    /\ \E c \in Grid : RLt(Zero, ClassSum(p, c)) /\ RLt(ClassSum(p, c), One)

\* C10: every success probability rmultinom_trans hands to a binomial draw is
\* a number of [0,1]: its denominator is not zero.
DrawProbabilityDefined ==
    (tpc = "draw" /\ bp # NoFrame) =>
        \A c \in Grid : IsFinite(bp[c]) /\ RLe(Zero, bp[c]) /\ RLe(bp[c], One)

\* C2: with reflect enabled and in deterministic mode, for a non-negative seed
\* field and a non-negative kernel whose weights sum to 1, the sum of the matrix
\* disperse returns equals the sum of S.
ReflectConservesMass ==
    (/\ dpc = "done" /\ reflect /\ ~rand
     /\ \A c \in Grid : RLe(Zero, S[c])
     /\ \A c \in KernelCells : RLe(Zero, nb[c])
     /\ Accu(nb, nk, nk) = One)
    => Accu(dret, nrow, ncol) = Accu(S, nrow, ncol)

\* a deterministic call with reflect has returned on a grid of one row under a
\* kernel of radius 2 (the first fold of a border row lands in the opposite
\* border) that puts half of the mass on a corner offset
CornerMassFoldedTwice ==
    /\ dpc = "done" /\ reflect /\ ~rand
    /\ nk = 5 /\ nrow = 1 /\ ncol = 2
    /\ nb[<<0, 4>>] = Half /\ nb[<<2, 2>>] = Half
    /\ S[<<0, 1>>] = One
    /\ Accu(dret, nrow, ncol) = Accu(S, nrow, ncol)

\* C4: the seeds sim hands to transition and to disperse in one run are all
\* distinct.
SeedsDistinct ==
    \A j, k \in 1 .. Len(seedsUsed) : j < k => seedsUsed[j] # seedsUsed[k]

\* C5: the trajectory has nsteps+1 slices; slice 0 is the recorded class of the
\* initial N; slice k of every finished step k-1 is the recorded class of N at
\* the end of that step, which is the array transition returned with, added to
\* its class 0, what disperse returned for the reproduction of that same array;
\* the slices of the steps to come are still zero; transition is called on N
\* as the step before left it; the run ends after nsteps steps.
TrajectoryRecorded ==
    /\ DOMAIN d = 0 .. nsteps
    /\ d[0] = hist[1].pop[record]
    /\ \A k \in 1 .. si :
          LET h == hist[k + 1]
          IN  /\ h.seeds = reproduce(h.trans, fecundity)
              /\ h.pop = [h.trans EXCEPT ![0] = MatAdd(h.trans[0], h.out)]
              /\ d[k] = h.pop[record]
    /\ \A k \in si + 1 .. nsteps : d[k] = ZeroMat
    /\ spc = "transition" =>
          N = hist[si + 1].pop /\ E = env[(IF Len(env) > 1 THEN si ELSE 0) + 1]
    /\ spc = "done" => si = nsteps /\ Len(hist) = nsteps + 1

\* a run of two steps has ended whose recorded class changed at both steps
TwoStepsRecorded ==
    /\ spc = "done" /\ nsteps = 2
    /\ d[1] # d[0] /\ d[2] # d[1]

\* C6: a run given a negative population count or a negative kernel weight
\* never has transition, disperse or sim return an array.
InvalidInput ==
    \/ \E k \in Classes, c \in Grid : RLt(hist[1].pop[k][c], Zero)
    \/ \E c \in KernelCells : RLt(nb[c], Zero)

InvalidInputRejected ==
    InvalidInput => (tpc # "done" /\ dpc # "done" /\ spc # "done")

\* C9: no two binomial draws of one invocation of transition or of disperse are
\* taken from the same generator state.
DrawsFromDistinctStates ==
    \A j, k \in 1 .. Len(draws) :
        j < k => <<draws[j].seed, draws[j].pos>> # <<draws[k].seed, draws[k].pos>>

====
